---------------------------- MODULE Spec2Model ----------------------------
(***************************************************************************)
(* thebops.svnurls: split_svn_url / unsplit_svn_url / change_svn_url and   *)
(* the value checkers, as a state machine whose state is the record of the *)
(* most recent call (its arguments, the tuple it produced or consumed and  *)
(* what it returned).  Python str values are TLA+ strings; len, slicing    *)
(* and concatenation are Len, SubSeq and \o on them.  The platform is      *)
(* POSIX (os.sep = '/', os.altsep = None) and urllib is Python 3's.        *)
(***************************************************************************)
EXTENDS Integers, Sequences, FiniteSets, TLC

VARIABLES
    pc,      \* ready before the first call, then the function that ran last:
             \* split, unsplit, change or checker
    prov,    \* where the argument of that call came from (see the actions)
    url,     \* the url last given to split_svn_url / change_svn_url
    kwargs,  \* split_svn_url's keyword options [baseurl, assume_url]
    edits,   \* change_svn_url's keyword arguments, in iteration order
    key,     \* the first call: split, unsplit, change, or the key of
             \* url_part_checkers whose checker is called
    arg,     \* the value given to that checker
    tup,     \* what split_svn_url returned (a Result)
    liz,     \* the 6-tuple handed to unsplit_svn_url
    ret      \* what the last call returned or raised (a Result)

vars == <<pc, prov, url, kwargs, edits, key, arg, tup, liz, ret>>

---------------------------------------------------------------------------
(* Python values and results                                               *)

StrV(s)  == [t |-> "str",  s |-> s,  n |-> 0]
IntV(n)  == [t |-> "int",  s |-> "", n |-> n]
BoolV(b) == [t |-> "bool", s |-> "", n |-> IF b THEN 1 ELSE 0]
None    == [t |-> "none", s |-> "", n |-> 0]

\* bool(v)
Truthy(v) == CASE v.t = "str"  -> v.s # ""
               [] v.t = "none" -> FALSE
               [] OTHER        -> v.n # 0

\* v == w in Python: True == 1 and False == 0, a str equals only a str
PyEq(v, w) == CASE v.t = "str" \/ w.t = "str"   -> v.t = w.t /\ v.s = w.s
                [] v.t = "none" \/ w.t = "none" -> v.t = w.t
                [] OTHER                        -> v.n = w.n

Ok(v)       == [kind |-> "ok", v |-> v, msg |-> ""]
Raise(e, m) == [kind |-> e, v |-> None, msg |-> m]
IsOk(r)     == r.kind = "ok"
ValueError(m) == Raise("ValueError", m)

---------------------------------------------------------------------------
(* str methods                                                             *)

Char(s, i) == SubSeq(s, i, i)

\* s[i:] and s[:i] for 0 <= i
From(s, i) == SubSeq(s, i + 1, Len(s))
UpTo(s, i) == SubSeq(s, 1, IF i < Len(s) THEN i ELSE Len(s))

startswith(s, p) == Len(p) <= Len(s) /\ SubSeq(s, 1, Len(p)) = p

\* c in s, for a one-character c
HasChar(s, c) == \E i \in 1..Len(s) : Char(s, i) = c

\* s.find(c, start) + 1: the 1-based place of the first c at or after
\* place from, 0 when there is none
Find(s, c, from) ==
    IF \E i \in from..Len(s) : Char(s, i) = c
    THEN CHOOSE i \in from..Len(s) :
            Char(s, i) = c /\ \A j \in from..(i - 1) : Char(s, j) # c
    ELSE 0

RECURSIVE split(_, _)
\* s.split(c)
split(s, c) ==
    LET i == Find(s, c, 1)
    IN  IF i = 0 THEN <<s>>
        ELSE <<SubSeq(s, 1, i - 1)>> \o split(From(s, i), c)

\* s.split(c, 1)
split1(s, c) ==
    LET i == Find(s, c, 1)
    IN  IF i = 0 THEN <<s>> ELSE <<SubSeq(s, 1, i - 1), From(s, i)>>

RECURSIVE join(_, _)
\* c.join(seq)
join(c, seq) ==
    IF seq = <<>> THEN ""
    ELSE IF Len(seq) = 1 THEN seq[1]
    ELSE seq[1] \o c \o join(c, Tail(seq))

RECURSIVE lstrip(_, _)
lstrip(s, c) ==
    IF Len(s) > 0 /\ Char(s, 1) = c THEN lstrip(From(s, 1), c) ELSE s

RECURSIVE rstrip(_, _)
rstrip(s, c) ==
    IF Len(s) > 0 /\ Char(s, Len(s)) = c
    THEN rstrip(SubSeq(s, 1, Len(s) - 1), c) ELSE s

strip(s, c) == lstrip(rstrip(s, c), c)

\* list slicing seq[lo:hi] with Python's treatment of negative and
\* out-of-range bounds
Clamp(i, n) == IF i < 0 THEN (IF i + n < 0 THEN 0 ELSE i + n)
               ELSE IF i > n THEN n ELSE i
Slice(seq, lo, hi) == SubSeq(seq, Clamp(lo, Len(seq)) + 1, Clamp(hi, Len(seq)))

\* seq[i] for -len <= i < len: a negative index counts from the end
Item(seq, i) == IF i < 0 THEN seq[Len(seq) + i + 1] ELSE seq[i + 1]

\* seq.index(x), 0-based, for x in seq
index(seq, x) == (CHOOSE i \in 1..Len(seq) :
                    seq[i] = x /\ \A j \in 1..(i - 1) : seq[j] # x) - 1

InList(seq, x) == \E i \in 1..Len(seq) : seq[i] = x

Digits == <<"0", "1", "2", "3", "4", "5", "6", "7", "8", "9">>
IsDigit(c) == InList(Digits, c)
DigitVal(c) == index(Digits, c)

RECURSIVE DecVal(_)
\* the value of a non-empty string of digits
DecVal(s) == IF Len(s) = 0 THEN 0
             ELSE 10 * DecVal(SubSeq(s, 1, Len(s) - 1)) + DigitVal(Char(s, Len(s)))

\* int(s) accepts an optional sign and one or more digits (the inputs hold
\* no blanks and no underscores)
IsIntLiteral(s) ==
    LET body == IF Len(s) > 0 /\ Char(s, 1) \in {"+", "-"} THEN From(s, 1) ELSE s
    IN  Len(body) > 0 /\ \A i \in 1..Len(body) : IsDigit(Char(body, i))
IntOf(s) ==
    IF Char(s, 1) = "-" THEN 0 - DecVal(From(s, 1))
    ELSE IF Char(s, 1) = "+" THEN DecVal(From(s, 1))
    ELSE DecVal(s)

RECURSIVE str(_)
\* str(n) for an int n
str(n) == IF n < 0 THEN "-" \o str(0 - n)
          ELSE IF n < 10 THEN Digits[n + 1]
          ELSE str(n \div 10) \o Digits[(n % 10) + 1]


---------------------------------------------------------------------------
(* urllib.parse and os.path, as imported at the top of svnurls.py          *)

Lowers == <<"a", "b", "c", "d", "e", "f", "g", "h", "i", "j", "k", "l", "m",
            "n", "o", "p", "q", "r", "s", "t", "u", "v", "w", "x", "y", "z">>
Uppers == <<"A", "B", "C", "D", "E", "F", "G", "H", "I", "J", "K", "L", "M",
            "N", "O", "P", "Q", "R", "S", "T", "U", "V", "W", "X", "Y", "Z">>
IsAlpha(c) == InList(Lowers, c) \/ InList(Uppers, c)
IsSchemeChar(c) == IsAlpha(c) \/ IsDigit(c) \/ c \in {"+", "-", "."}

RECURSIVE lower(_)
\* s.lower()
lower(s) ==
    IF Len(s) = 0 THEN ""
    ELSE LET c == Char(s, 1)
         IN  (IF InList(Uppers, c) THEN Lowers[index(Uppers, c) + 1] ELSE c)
                \o lower(From(s, 1))

\* urllib.parse.uses_netloc
uses_netloc == {"", "ftp", "http", "gopher", "nntp", "telnet", "imap", "wais",
                "file", "mms", "https", "shttp", "snews", "prospero", "rtsp",
                "rtsps", "rtspu", "rsync", "svn", "svn+ssh", "sftp", "nfs",
                "git", "git+ssh", "ws", "wss"}

\* urllib.parse._splitnetloc(u, 2): the 0-based end of the network location
NetlocEnd(u) ==
    LET ends == {Find(u, c, 3) - 1 : c \in {"/", "?", "#"}} \ {-1}
    IN  IF ends = {} THEN Len(u)
        ELSE CHOOSE d \in ends : \A e \in ends : d <= e

\* urllib.parse.urlsplit(u), for a str u without blanks, control characters
\* or brackets, from its last step to its first: the query is cut from
\* what precedes the fragment, ...
SplitQuery(scheme, netloc, u3, fragment) ==
    IF HasChar(u3, "?")
    THEN [scheme |-> scheme, netloc |-> netloc, path |-> split1(u3, "?")[1],
          query |-> split1(u3, "?")[2], fragment |-> fragment]
    ELSE [scheme |-> scheme, netloc |-> netloc, path |-> u3,
          query |-> "", fragment |-> fragment]

\* ... the fragment from what follows the network location, ...
SplitFragment(scheme, netloc, u2) ==
    SplitQuery(scheme, netloc,
               IF HasChar(u2, "#") THEN split1(u2, "#")[1] ELSE u2,
               IF HasChar(u2, "#") THEN split1(u2, "#")[2] ELSE "")

\* ... the network location from what follows the scheme, ...
SplitNetloc(scheme, u1) ==
    SplitFragment(scheme,
                  IF UpTo(u1, 2) = "//" THEN SubSeq(u1, 3, NetlocEnd(u1)) ELSE "",
                  IF UpTo(u1, 2) = "//" THEN From(u1, NetlocEnd(u1)) ELSE u1)

\* ... and the scheme, which ends at the first colon (0-based place i) when
\* it starts with a letter and holds scheme characters only
HasScheme(u, i) ==
    i > 0 /\ IsAlpha(Char(u, 1)) /\ \A k \in 1..i : IsSchemeChar(Char(u, k))

SplitScheme(u, i) ==
    SplitNetloc(IF HasScheme(u, i) THEN lower(UpTo(u, i)) ELSE "",
                IF HasScheme(u, i) THEN From(u, i + 1) ELSE u)

urlsplit(u) == SplitScheme(u, Find(u, ":", 1) - 1)

\* urllib.parse.urlunsplit((scheme, netloc, path, query, fragment))
urlunsplit(scheme, netloc, path, query, fragment) ==
    LET u1 == IF netloc # "" \/ (scheme # "" /\ scheme \in uses_netloc
                                 /\ UpTo(path, 2) # "//")
              THEN "//" \o netloc
                   \o (IF path # "" /\ UpTo(path, 1) # "/" THEN "/" \o path
                       ELSE path)
              ELSE path
        u2 == IF scheme # "" THEN scheme \o ":" \o u1 ELSE u1
        u3 == IF query # "" THEN u2 \o "?" \o query ELSE u2
    IN  IF fragment # "" THEN u3 \o "#" \o fragment ELSE u3

\* os.sep, os.altsep (None) and os.path.curdir on POSIX
sep    == "/"
curdir == "."

RECURSIVE NormComps(_, _, _)
\* the loop of posixpath.normpath over the components
NormComps(comps, new_comps, initial_slashes) ==
    IF comps = <<>> THEN new_comps
    ELSE LET comp == Head(comps)
             n    == Len(new_comps)
         IN  IF comp \in {"", "."}
             THEN NormComps(Tail(comps), new_comps, initial_slashes)
             ELSE IF comp # ".." \/ (initial_slashes = 0 /\ n = 0)
                     \/ (n > 0 /\ new_comps[n] = "..")
             THEN NormComps(Tail(comps), Append(new_comps, comp), initial_slashes)
             ELSE IF n > 0
             THEN NormComps(Tail(comps), SubSeq(new_comps, 1, n - 1), initial_slashes)
             ELSE NormComps(Tail(comps), new_comps, initial_slashes)

\* os.path.normpath(path) on POSIX
normpath(path) ==
    IF path = "" THEN "."
    ELSE LET initial_slashes ==
                 IF ~startswith(path, "/") THEN 0
                 ELSE IF startswith(path, "//") /\ ~startswith(path, "///") THEN 2
                 ELSE 1
             joined == join("/", NormComps(split(path, "/"), <<>>, initial_slashes))
             res    == (IF initial_slashes = 2 THEN "//"
                        ELSE IF initial_slashes = 1 THEN "/" ELSE "") \o joined
         IN  IF res = "" THEN "." ELSE res

---------------------------------------------------------------------------
(* value checkers                                                          *)

forbidden_chars == {"<", ">", "|", "@", "?", "*"}
reserved_names  == <<"trunk", "branches", "tags">>

\* forbidden_chars.intersection(s)
Forbidden(s) == {Char(s, i) : i \in 1..Len(s)} \cap forbidden_chars

\* repr(s) of a str without quotes or backslashes
Repr(s) == "'" \o s \o "'"

\* what iterating, .startswith or .split of a value that is no str raises
NotIterable(v) == Raise("TypeError", "object is not iterable")
NoAttribute(v) == Raise("AttributeError", "object has no attribute")

\* the end of repo_value, for the tuple t that urlsplit returned
RepoOf(v, t) ==
    IF t.scheme # "" \/ t.netloc # ""
    THEN Ok(StrV(urlunsplit(t.scheme, t.netloc, t.path, "", "")))
    ELSE ValueError("URL " \o Repr(v.s)
                    \o " doesn't contain a scheme nor a hostname")

repo_value(v) ==
    IF v = StrV("^") THEN Ok(v)
    ELSE IF v.t # "str"
    THEN (IF Truthy(v) THEN NoAttribute(v)
          ELSE ValueError("URL doesn't contain a scheme nor a hostname"))
    ELSE RepoOf(v, urlsplit(v.s))

prefix_value(v) ==
    IF v.t # "str" THEN NotIterable(v)
    ELSE IF Forbidden(v.s) # {}
    THEN ValueError(v.s \o " contains forbidden characters")
    ELSE LET stripped == strip(v.s, "/")
         IN  IF stripped # "" THEN Ok(StrV(join(stripped, <<"/", "/">>)))
             ELSE Ok(StrV("/"))

dotted_name(v) ==
    IF v.t # "str" THEN NotIterable(v)
    ELSE IF Forbidden(v.s) # {}
    THEN ValueError(v.s \o " contains forbidden characters")
    ELSE IF v.s = "" THEN Ok(StrV(""))
    ELSE IF InList(reserved_names, v.s)
    THEN ValueError("The name " \o Repr(v.s) \o " is reserved!")
    ELSE LET stripped == rstrip(v.s, "/")
             chunks   == split(stripped, ".")
         IN  IF HasChar(stripped, "/")
             THEN ValueError("dotted name " \o Repr(stripped)
                             \o " must not contain slashes")
             ELSE IF \E k \in 1..Len(chunks) : chunks[k] = ""
             THEN ValueError("badly dotted name: " \o Repr(stripped))
             ELSE Ok(StrV(stripped))

\* prefix + name, for the name a checker returned, or the error it raised
Prefixed(prefix, name) ==
    IF IsOk(name) THEN Ok(StrV(prefix \o name.v.s)) ELSE name

branch_part(v) ==
    IF v = StrV("trunk") THEN Ok(v)
    ELSE IF ~Truthy(v) THEN Ok(StrV(""))
    ELSE IF v.t # "str" THEN NoAttribute(v)
    ELSE LET liz0 == split1(v.s, "/")
         IN  IF liz0[1] \notin {"tags", "branches"}
             THEN ValueError(Repr(v.s) \o ": tags/... or branches/... expected")
             ELSE IF Len(liz0) > 1 /\ liz0[2] # ""
             THEN Prefixed(liz0[1] \o "/", dotted_name(StrV(liz0[2])))
             ELSE Ok(StrV(liz0[1]))

url_subpath(v) ==
    IF v.t # "str" THEN NotIterable(v)
    ELSE IF Forbidden(v.s) # {}
    THEN ValueError(Repr(v.s) \o " contains forbidden characters")
    ELSE LET stripped == lstrip(normpath(v.s), sep)
         IN  IF stripped = curdir THEN Ok(StrV("")) ELSE Ok(StrV(stripped))

\* peg_value with the bound off by one: 0 passes
peg_value_zero(v) ==
    IF v = None \/ v = StrV("") THEN Ok(None)
    ELSE IF v.t = "str" /\ ~IsIntLiteral(v.s)
    THEN ValueError("peg revision must be a number >= 1 (" \o Repr(v.s) \o ")")
    ELSE LET val == IF v.t = "str" THEN IntOf(v.s) ELSE v.n
         IN  IF val < 0
             THEN ValueError("peg revision needs to be >= 1 (" \o str(val) \o ")")
             ELSE Ok(IntV(val))

peg_value(v) ==
    IF v = None \/ v = StrV("") THEN Ok(None)
    ELSE IF v.t = "str" /\ ~IsIntLiteral(v.s)
    THEN ValueError("peg revision must be a number >= 1 (" \o Repr(v.s) \o ")")
    ELSE LET val == IF v.t = "str" THEN IntOf(v.s) ELSE v.n
         IN  IF val <= 0
             THEN ValueError("peg revision needs to be >= 1 (" \o str(val) \o ")")
             ELSE Ok(IntV(val))

\* autoprefix that takes every value for a bare name
autoprefix_bare(prefix, v) ==
    IF v.t # "str" THEN NoAttribute(v)
    ELSE IF v.s # "" THEN Prefixed(prefix, dotted_name(v))
    ELSE Ok(StrV(""))

\* autoprefix(prefix)(v)
autoprefix(prefix, v) ==
    IF v.t # "str" THEN NoAttribute(v)
    ELSE IF startswith(v.s, prefix)
    THEN (IF From(v.s, Len(prefix)) # ""
          THEN Prefixed(prefix, dotted_name(StrV(From(v.s, Len(prefix)))))
          ELSE ValueError(Repr(v.s) \o ": expected some name after "
                          \o Repr(prefix) \o "!"))
    ELSE IF v.s # "" THEN Prefixed(prefix, dotted_name(v))
    ELSE Ok(StrV(""))

\* switched_const(const)(v); the final raise formats msg with a name, s,
\* that the checker does not bind, so it is a KeyError that leaves
switched_const(const, v) ==
    IF ~Truthy(v) THEN Ok(StrV(""))
    ELSE IF PyEq(v, IntV(1)) \/ v = StrV(const) THEN Ok(StrV(const))
    ELSE IF v.t # "str" THEN Raise("TypeError", "object is not subscriptable")
    ELSE LET val == IF Char(v.s, Len(v.s)) = sep
                    THEN SubSeq(v.s, 1, Len(v.s) - 1) ELSE v.s
         IN  IF val = const THEN Ok(StrV(const))
             ELSE Raise("KeyError", "'s'")

svn_url_parts == <<"repo", "prefix", "project", "branch", "suffix", "peg">>

\* url_part_index[k], 0-based as in the source
url_part_index(k) ==
    IF k \in {"branch_part", "tag", "trunk", "branches", "tags"} THEN 3
    ELSE index(svn_url_parts, k)

EditKeys == {"repo", "prefix", "project", "branch_part", "suffix", "peg",
             "branch", "branches", "trunk", "tag", "tags"}

\* url_part_checkers[k](v)
url_part_checkers(k, v) ==
    CASE k = "repo"        -> repo_value(v)
      [] k = "prefix"      -> prefix_value(v)
      [] k = "project"     -> dotted_name(v)
      [] k = "branch_part" -> branch_part(v)
      [] k = "suffix"      -> url_subpath(v)
      [] k = "peg"         -> peg_value(v)
      [] k = "branch"      -> autoprefix("branches/", v)
      [] k = "branches"    -> switched_const("branches", v)
      [] k = "trunk"       -> switched_const("trunk", v)
      [] k = "tag"         -> autoprefix("tags/", v)
      [] k = "tags"        -> switched_const("tags", v)

---------------------------------------------------------------------------
(* split_svn_url, unsplit_svn_url, change_svn_url                          *)

\* A SplitSubversionURL is a 6-tuple of values; field k of svn_url_parts
\* (0-based, as url_part_index counts) is t[k + 1].

\* split_svn_url's keyword options and their defaults
SplitKwargs(baseurl, assume_url) == [baseurl |-> baseurl, assume_url |-> assume_url]
DefaultKwargs == SplitKwargs(None, TRUE)

NoMatch(u, baseurl) ==
    ValueError("URL " \o Repr(u) \o " doesn't match the given baseurl "
               \o Repr(baseurl) \o "!")

\* The last branch of the repo resolution, for the tuple t that
\* urlsplit returned: Ok(<<repo, rest>>) or the error raised
RepoFromUrl(u, t) ==
    IF ~(t.scheme # "" \/ t.netloc # "")
    THEN ValueError("URL " \o Repr(u)
                    \o " doesn't contain a scheme nor a hostname")
    ELSE IF t.query # "" \/ t.fragment # ""
    THEN ValueError("Error parsing " \o Repr(u) \o ": We don't support"
                    \o " URLs containing query strings or fragments!")
    ELSE Ok(<<urlunsplit(t.scheme, t.netloc, "", "", ""), t.path>>)

\* the baseurl branch without the check of what follows the baseurl
RepoFromBase_unchecked(u, baseurl) ==
    IF ~startswith(u, baseurl) THEN NoMatch(u, baseurl)
    ELSE Ok(<<baseurl, From(u, Len(baseurl))>>)

\* The baseurl branch, for the baseurl without its trailing slashes
RepoFromBase(u, baseurl) ==
    IF ~startswith(u, baseurl) THEN NoMatch(u, baseurl)
    ELSE IF From(u, Len(baseurl)) = "" THEN Ok(<<baseurl, "">>)
    ELSE IF startswith(From(u, Len(baseurl)), "/")
    THEN Ok(<<baseurl, From(u, Len(baseurl))>>)
    ELSE NoMatch(u, baseurl)

\* The left end of split_svn_url: the repo and the rest of the url that is
\* parsed after it, as Ok(<<repo, rest>>), or the error raised.
SplitRepo(u, kw) ==
    IF startswith(u, "^/") THEN Ok(<<"^", From(u, 1)>>)
    ELSE IF startswith(u, "/") /\ kw.assume_url THEN Ok(<<"^", u>>)
    ELSE IF Truthy(kw.baseurl) THEN RepoFromBase(u, rstrip(kw.baseurl.s, "/"))
    ELSE RepoFromUrl(u, urlsplit(u))

\* The end of split_svn_url: the prefix gets its slashes when a field
\* follows it, and the tuple is built
SplitResult(repo, prefix, project, branch, suffix, peg) ==
    Ok(<<StrV(repo),
         StrV(IF project # "" \/ Truthy(branch) \/ Truthy(suffix)
              THEN (IF prefix = "" THEN "/"
                    ELSE "/" \o strip(prefix, "/") \o "/")
              ELSE prefix),
         StrV(project), branch, suffix, peg>>)

\* the search with the keywords in the opposite order
KeywordAt_tags_first(liz0) ==
    IF InList(liz0, "tags") THEN index(liz0, "tags")
    ELSE IF InList(liz0, "branches") THEN index(liz0, "branches")
    ELSE IF InList(liz0, "trunk") THEN index(liz0, "trunk")
    ELSE -1

\* i, the place in liz of the first keyword found (trunk before branches
\* before tags), -1 for the source's None; and j for that i
KeywordAt(liz0) ==
    IF InList(liz0, "trunk") THEN index(liz0, "trunk")
    ELSE IF InList(liz0, "branches") THEN index(liz0, "branches")
    ELSE IF InList(liz0, "tags") THEN index(liz0, "tags")
    ELSE -1
BranchEnd(liz0, i) == IF InList(liz0, "trunk") THEN i + 1 ELSE i + 2

\* the fields cut from liz around the keyword at i
SplitList(repo, liz0, i, peg) ==
    IF i = -1
    THEN SplitResult(repo, join("/", Slice(liz0, 0, -1)), Item(liz0, -1),
                     None, None, peg)
    ELSE SplitResult(repo, join("/", Slice(liz0, 0, i - 1)), Item(liz0, i - 1),
                     StrV(join("/", Slice(liz0, i, BranchEnd(liz0, i)))),
                     StrV(join("/", Slice(liz0, BranchEnd(liz0, i), Len(liz0)))),
                     peg)

\* what follows the peg revision: peg is what peg_value returned or raised
SplitPeg(repo, path, peg) ==
    IF ~IsOk(peg) THEN peg
    ELSE SplitList(repo, split(path, "/"), KeywordAt(split(path, "/")), peg.v)

\* The rest of split_svn_url: the peg revision, then the branch part and
\* what precedes and follows it.
SplitPath(repo, rest) ==
    SplitPeg(repo,
             IF HasChar(rest, "@") THEN split1(rest, "@")[1] ELSE rest,
             IF HasChar(rest, "@") THEN peg_value(StrV(split1(rest, "@")[2]))
             ELSE Ok(None))

\* the two halves joined: left is what SplitRepo returned or raised
SplitRest(left) ==
    IF IsOk(left) THEN SplitPath(left.v[1], left.v[2]) ELSE left

split_svn_url(u, kw) == SplitRest(SplitRepo(u, kw))

\* str(peg) in unsplit_svn_url
PegStr(v) == CASE v.t = "str"  -> v.s
               [] v.t = "bool" -> "True"
               [] OTHER        -> str(v.n)

\* x or default, then the text ''.join takes
OrElse(v, default) == IF Truthy(v) THEN v ELSE StrV(default)

unsplit_svn_url(t) ==
    LET res == <<OrElse(t[1], "^"), OrElse(t[2], "/")>>
               \o (IF Truthy(t[3]) THEN <<t[3], StrV("/")>> ELSE <<>>)
               \o (IF Truthy(t[4]) THEN <<t[4], StrV("/")>> ELSE <<>>)
               \o (IF Truthy(t[5]) THEN <<t[5]>> ELSE <<>>)
               \o (IF Truthy(t[6]) THEN <<StrV("@"), StrV(PegStr(t[6]))>> ELSE <<>>)
    IN  IF \E k \in 1..Len(res) : res[k].t # "str"
        THEN Raise("TypeError", "sequence item: expected str instance")
        ELSE Ok(StrV(join("", [k \in 1..Len(res) |-> res[k].s])))

\* the order of sorted() on the keys: lower-case letters and '_', which
\* sorts before them
Ord(c) == IF c = "_" THEN 0 ELSE index(Lowers, c) + 1

RECURSIVE Less(_, _)
Less(a, b) ==
    IF b = "" THEN FALSE
    ELSE IF a = "" THEN TRUE
    ELSE IF Char(a, 1) # Char(b, 1) THEN Ord(Char(a, 1)) < Ord(Char(b, 1))
    ELSE Less(From(a, 1), From(b, 1))

\* ' and '.join(sorted([a, b]))
SortedKeys(a, b) == IF Less(b, a) THEN b \o " and " \o a ELSE a \o " and " \o b

ConflictError(a, b, i) ==
    Raise("TypeError", "Both " \o SortedKeys(a, b) \o " target index " \o str(i))

\* An edit is a keyword argument <<key, value>>.  new_value and
\* blocked_kwargs are functions on the indexes 0..5; has and blocked hold
\* the indexes that are keys of each dict.
NoEdits == [has |-> {}, new_value |-> [i \in 0..5 |-> None],
            blocked |-> {}, blocked_kwargs |-> [i \in 0..5 |-> ""]]

RECURSIVE CheckEdits(_, _)
\* the pass without the conflict check: a later truthy value replaces an
\* earlier one
CheckEdit_unblocked(k, i, new, rest, st) ==
    IF ~IsOk(new) THEN new
    ELSE IF Truthy(new.v) \/ i \notin st.has
    THEN CheckEdits(rest, [st EXCEPT !.has = st.has \cup {i},
                                     !.new_value[i] = new.v])
    ELSE CheckEdits(rest, st)

\* the pass in which a falsy value replaces whatever index i holds
CheckEdit_overwriting(k, i, new, rest, st) ==
    IF ~IsOk(new) THEN new
    ELSE IF Truthy(new.v) /\ i \in st.blocked
    THEN Raise("TypeError", "Both " \o SortedKeys(k, st.blocked_kwargs[i])
                            \o " target index " \o str(i))
    ELSE CheckEdits(rest,
           [has |-> st.has \cup {i},
            new_value |-> [st.new_value EXCEPT ![i] = new.v],
            blocked |-> IF Truthy(new.v) THEN st.blocked \cup {i} ELSE st.blocked,
            blocked_kwargs |-> IF Truthy(new.v)
                               THEN [st.blocked_kwargs EXCEPT ![i] = k]
                               ELSE st.blocked_kwargs])

\* One pass of the loop over kwargs.items(), for the edit with key k whose
\* checker returned new: the error raised, or the rest of the loop
CheckEdit(k, i, new, rest, st) ==
    IF ~IsOk(new) THEN new
    ELSE IF Truthy(new.v)
    THEN (IF i \in st.blocked
          THEN ConflictError(k, st.blocked_kwargs[i], i)
          ELSE CheckEdits(rest,
                 [has |-> st.has \cup {i},
                  new_value |-> [st.new_value EXCEPT ![i] = new.v],
                  blocked |-> st.blocked \cup {i},
                  blocked_kwargs |-> [st.blocked_kwargs EXCEPT ![i] = k]]))
    ELSE IF i \notin st.has
    THEN CheckEdits(rest, [st EXCEPT !.has = st.has \cup {i},
                                     !.new_value[i] = new.v])
    ELSE CheckEdits(rest, st)

\* the loop over kwargs.items(): Ok(state of the two dicts) or the error
CheckEdits(kwargs_items, st) ==
    IF kwargs_items = <<>> THEN Ok(st)
    ELSE CheckEdit(Head(kwargs_items)[1],
                   url_part_index(Head(kwargs_items)[1]),
                   url_part_checkers(Head(kwargs_items)[1], Head(kwargs_items)[2]),
                   Tail(kwargs_items), st)

\* liz after the loop over new_value.items(), for the tuple t that
\* split_svn_url returned and the dicts st that the loop over the edits left
Assigned(t, st) ==
    IF ~IsOk(t) THEN t
    ELSE IF ~IsOk(st) THEN st
    ELSE Ok([k \in 1..6 |-> IF (k - 1) \in st.v.has
                            THEN st.v.new_value[k - 1] ELSE t.v[k]])

\* change_svn_url up to its last line: the list that is handed to
\* unsplit_svn_url, or the error raised before
ChangedList(u, kwargs_items, split_kwargs) ==
    Assigned(split_svn_url(u, split_kwargs), CheckEdits(kwargs_items, NoEdits))

\* the last line of change_svn_url
Unsplit_(l) == IF IsOk(l) THEN unsplit_svn_url(l.v) ELSE l

change_svn_url(u, kwargs_items, split_kwargs) ==
    Unsplit_(ChangedList(u, kwargs_items, split_kwargs))

---------------------------------------------------------------------------
(* The arguments the calls are made with                                   *)

MaxSegs   == 3   \* path segments in a url given to split_svn_url
MaxPieces == 2   \* pieces in a value given to a checker
MaxEdits  == 3   \* keyword arguments in one change_svn_url call

\* '/'-separated segments and the paths made of them
Segments == {"", "trunk", "branches", "tags", "p", "v1.0"}
SegLists == UNION {[1..k -> Segments] : k \in 0..MaxSegs}
Paths    == {join("/", sl) : sl \in SegLists}

\* what precedes the path (a repo, the ^ of a repository-relative url, or
\* nothing) and what follows it (a peg revision, a query, a fragment)
Heads == {"^", "", "svn://h", "svn://h/repo", "svn:"}
Tails == {"", "@7", "@0", "?q", "#f"}
Urls  == {h \o p \o t : h \in Heads, p \in Paths, t \in Tails}

BaseUrls   == {None, StrV("svn://h/repo/"), StrV("/")}
KwargsSets == {SplitKwargs(b, a) : b \in BaseUrls, a \in BOOLEAN}

\* well-formed tuples given to unsplit_svn_url
Tuples ==
    {<<StrV(r), StrV(x), StrV(p), b, s, g>> :
        r \in {"^", "svn://h"}, x \in {"/", "/a/"}, p \in {"", "p"},
        b \in {None, StrV(""), StrV("trunk"), StrV("branches"), StrV("tags/v1.0")},
        s \in {None, StrV(""), StrV("x")}, g \in {None, IntV(7)}}

\* str values given to the checkers: up to MaxPieces pieces in a row
Pieces   == {"/", ".", "trunk", "branches", "tags", "v1", "a.b", "7", "0", "-",
             "@", "PREV", "svn://h", "?q"}
RECURSIVE Texts(_)
Texts(n) == IF n = 0 THEN {""}
            ELSE Texts(n - 1) \cup {t \o p : t \in Texts(n - 1), p \in Pieces}
Values   == {StrV(t) : t \in Texts(MaxPieces)}
              \cup {None, BoolV(TRUE), BoolV(FALSE), IntV(0), IntV(1), IntV(2), IntV(42)}

\* keyword arguments of change_svn_url calls that carry several edits
EditValues(k) ==
    CASE k = "branch_part" -> {StrV(""), StrV("tags/v1.0")}
      [] k = "branch"      -> {StrV(""), StrV("v1.0")}
      [] k = "tag"         -> {StrV(""), StrV("v1.0")}
      [] k = "trunk"       -> {BoolV(TRUE), IntV(0)}
      [] k = "branches"    -> {IntV(1), None}
      [] k = "tags"        -> {StrV("tags"), StrV("")}
      [] k = "peg"         -> {IntV(7), StrV("0")}
      [] k = "suffix"      -> {StrV("")}
      [] k = "project"     -> {StrV("q")}
      [] OTHER             -> {}
Edits == UNION {{<<k, v>> : v \in EditValues(k)} : k \in EditKeys}
EditLists ==
    {el \in UNION {[1..n -> Edits] : n \in 0..MaxEdits} :
        \A a, b \in 1..Len(el) : a # b => el[a][1] # el[b][1]}
\* ... and of calls that carry one edit, of any value
SingleEdits == {<<<<k, v>>>> : k \in EditKeys, v \in Values}

ChangeUrls == {"^/p/trunk/x", "svn://h/a/p/branches/v1/x@7", "p"}

---------------------------------------------------------------------------
(* The calls.  A behaviour starts with the arguments of a first call; a    *)
(* later call takes what the call before it returned.                      *)

Null == [kind |-> "none", v |-> None, msg |-> ""]

Init ==
    /\ pc = "ready" /\ prov = "input" /\ tup = Null /\ ret = Null
    /\ \/ /\ key = "split"
          /\ url \in Urls /\ kwargs \in KwargsSets
          /\ edits = <<>> /\ arg = None /\ liz = <<>>
       \/ /\ key = "unsplit"
          /\ liz \in Tuples
          /\ url = "" /\ kwargs = DefaultKwargs /\ edits = <<>> /\ arg = None
       \/ /\ key = "change"
          /\ url \in ChangeUrls /\ edits \in EditLists \cup SingleEdits
          /\ kwargs = DefaultKwargs /\ arg = None /\ liz = <<>>
       \/ /\ key \in EditKeys
          /\ arg \in Values
          /\ url = "" /\ kwargs = DefaultKwargs /\ edits = <<>> /\ liz = <<>>

\* split_svn_url(url, **kwargs)
Split ==
    /\ pc = "ready" /\ key = "split"
    /\ pc' = "split"
    /\ tup' = split_svn_url(url, kwargs)
    /\ ret' = tup'
    /\ UNCHANGED <<prov, url, kwargs, edits, key, arg, liz>>

\* split_svn_url(u) of the string u that unsplit_svn_url or change_svn_url
\* just returned; a string that has made the round once is not split again
\* (the strings of a longer chain can grow without bound)
SplitAgain ==
    /\ pc \in {"unsplit", "change"} /\ IsOk(ret)
    /\ prov \in {"input", "split"}
    /\ pc' = "split"
    /\ prov' = "unsplit"
    /\ url' = ret.v.s
    /\ kwargs' = DefaultKwargs
    /\ tup' = split_svn_url(ret.v.s, DefaultKwargs)
    /\ ret' = tup'
    /\ liz' = <<>> /\ edits' = <<>>
    /\ UNCHANGED <<key, arg>>

\* unsplit_svn_url(liz)
Unsplit ==
    /\ pc = "ready" /\ key = "unsplit"
    /\ pc' = "unsplit"
    /\ ret' = unsplit_svn_url(liz)
    /\ UNCHANGED <<prov, url, kwargs, edits, key, arg, tup, liz>>

\* unsplit_svn_url(t) of the tuple t that split_svn_url just returned
UnsplitAgain ==
    /\ pc = "split" /\ IsOk(tup)
    /\ pc' = "unsplit"
    /\ prov' = IF prov = "unsplit" THEN "roundtrip" ELSE "split"
    /\ liz' = tup.v
    /\ ret' = unsplit_svn_url(tup.v)
    /\ UNCHANGED <<url, kwargs, edits, key, arg, tup>>

\* change_svn_url(url, **edits), whose list after the edits is l
Changed(l) ==
    /\ liz' = IF IsOk(l) THEN l.v ELSE <<>>
    /\ ret' = Unsplit_(l)

Change ==
    /\ pc = "ready" /\ key = "change"
    /\ pc' = "change"
    /\ tup' = split_svn_url(url, kwargs)
    /\ Changed(Assigned(tup', CheckEdits(edits, NoEdits)))
    /\ UNCHANGED <<prov, url, kwargs, edits, key, arg>>

\* change_svn_url(r, **edits) for the string r that change_svn_url(url,
\* **edits) just returned: the same edits, made once more
ChangeAgain ==
    /\ pc = "change" /\ prov = "input" /\ IsOk(ret)
    /\ prov' = "changed"
    /\ url' = ret.v.s
    /\ tup' = split_svn_url(url', kwargs)
    /\ Changed(Assigned(tup', CheckEdits(edits, NoEdits)))
    /\ UNCHANGED <<pc, kwargs, edits, key, arg>>

\* url_part_checkers[key](arg)
Checker ==
    /\ pc = "ready" /\ key \in EditKeys
    /\ pc' = "checker"
    /\ ret' = url_part_checkers(key, arg)
    /\ UNCHANGED <<prov, url, kwargs, edits, key, arg, tup, liz>>

\* the same checker on the value it just returned
CheckerAgain ==
    /\ pc = "checker" /\ prov = "input" /\ IsOk(ret)
    /\ prov' = "checked"
    /\ arg' = ret.v
    /\ ret' = url_part_checkers(key, ret.v)
    /\ UNCHANGED <<pc, url, kwargs, edits, key, tup, liz>>

Next == \/ Split \/ SplitAgain \/ Unsplit \/ UnsplitAgain
        \/ Change \/ ChangeAgain \/ Checker \/ CheckerAgain

Spec == Init /\ [][Next]_vars

---------------------------------------------------------------------------
(* Properties of the calls.  In a state with pc = "change", edits holds the *)
(* keyword arguments of the call, tup what split_svn_url returned, liz the  *)
(* list handed to unsplit_svn_url and ret what the call returned or raised. *)

\* what the checker of edit number a returned or raised
Checked(a) == url_part_checkers(edits[a][1], edits[a][2])

\* the edits that target index i, and those of them whose checker returned
\* a truthy value
Targets(i)  == {a \in 1..Len(edits) : url_part_index(edits[a][1]) = i}
TruthyAt(i) == {a \in Targets(i) : IsOk(Checked(a)) /\ Truthy(Checked(a).v)}

\* the first and the second member of a set of edit numbers, in the order
\* the call processes them
First(S)  == CHOOSE a \in S : \A b \in S : a <= b
Second(S) == First(S \ {First(S)})

\* the keys of index 3 in alphabetical order, and the message of the
\* conflict error for two of them
Alphabetical == <<"branch", "branch_part", "branches", "tag", "tags", "trunk">>
BothMessage(a, b, i) ==
    IF index(Alphabetical, a) < index(Alphabetical, b)
    THEN "Both " \o a \o " and " \o b \o " target index " \o Digits[i + 1]
    ELSE "Both " \o b \o " and " \o a \o " target index " \o Digits[i + 1]

\* a dotted name: one path segment of non-empty dot-separated components
NameShape(n) ==
    /\ n # "" /\ ~HasChar(n, "/")
    /\ \A k \in 1..Len(split(n, ".")) : split(n, ".")[k] # ""
IsDottedName(n) ==
    NameShape(n) /\ Forbidden(n) = {} /\ ~InList(reserved_names, n)

\* C1 (round trip): a string u that unsplit_svn_url produced, from a tuple
\* or at the end of change_svn_url, and that split_svn_url accepts, is what
\* unsplit_svn_url(split_svn_url(u)) returns.  In a state with prov =
\* "roundtrip", url is such a u and ret is unsplit_svn_url(split_svn_url(u)).
C1_RoundTrip ==
    (pc = "unsplit" /\ prov = "roundtrip") => ret = Ok(StrV(url))

\* C2 (conflict detection): a change_svn_url call with two or more edits of
\* one index whose checkers return truthy values never returns a string, in
\* whatever order the edits are processed; and when split_svn_url accepted
\* the url and no checker raised before the second of them was processed,
\* it raises the TypeError that names the first two of them in alphabetical
\* order, and the index.
C2_ConflictDetected ==
    pc = "change" =>
        \A i \in 0..5 :
            Cardinality(TruthyAt(i)) >= 2 =>
                /\ ~IsOk(ret)
                /\ (IsOk(tup) /\ \A a \in 1..Second(TruthyAt(i)) : IsOk(Checked(a)))
                   => ret = Raise("TypeError",
                                  BothMessage(edits[First(TruthyAt(i))][1],
                                              edits[Second(TruthyAt(i))][1], i))

\* the doctest's conflict, with trunk processed before branch
C2_Witness ==
    /\ pc = "change"
    /\ edits = <<<<"trunk", BoolV(TRUE)>>, <<"branch", StrV("v1.0")>>>>
    /\ ret = Raise("TypeError", "Both branch and trunk target index 3")

\* C3 (the truthy edit wins): when split_svn_url accepted the url, every
\* checker accepted its value and no index has two truthy edits, the call
\* returns a string; the list handed to unsplit_svn_url holds, at an index
\* with one truthy edit, that edit's value, wherever the edit stands among
\* the falsy ones, and at an index with falsy edits only, a falsy value (the
\* first of them).
C3_TruthyEditWins ==
    (/\ pc = "change" /\ IsOk(tup)
     /\ \A a \in 1..Len(edits) : IsOk(Checked(a))
     /\ \A i \in 0..5 : Cardinality(TruthyAt(i)) <= 1)
    => /\ IsOk(ret)
       /\ \A i \in 0..5 :
            /\ \A a \in TruthyAt(i) : liz[i + 1] = Checked(a).v
            /\ (Targets(i) # {} /\ TruthyAt(i) = {})
               => /\ ~Truthy(liz[i + 1])
                  /\ liz[i + 1] = Checked(First(Targets(i))).v

\* a truthy branch between a falsy trunk and a falsy tags
C3_Witness ==
    /\ pc = "change"
    /\ url = "^/p/trunk/x"
    /\ edits = <<<<"trunk", IntV(0)>>, <<"branch", StrV("v1.0")>>,
                 <<"tags", StrV("")>>>>
    /\ liz[4] = StrV("branches/v1.0")
    /\ ret = Ok(StrV("^/p/branches/v1.0/x"))

\* the call with the one edit k=v returns or raises what the call in the
\* state did
SameAs(k, v) == ret = change_svn_url(url, <<<<k, v>>>>, kwargs)

\* C4 (alias equivalence): for a url that split_svn_url accepts and a
\* dotted name n, the calls with branch=n, branch='branches/'+n and
\* branch_part='branches/'+n return the same string, and so do tag=n,
\* tag='tags/'+n and branch_part='tags/'+n; for k one of trunk, branches,
\* tags, so do k=True, k=1, k=k and branch_part=k.
C4_AliasEquivalence ==
    (pc = "change" /\ IsOk(tup) /\ Len(edits) = 1) =>
        /\ (edits[1][1] = "branch" /\ edits[1][2].t = "str"
                /\ IsDottedName(edits[1][2].s))
           => /\ IsOk(ret)
              /\ SameAs("branch", StrV("branches/" \o edits[1][2].s))
              /\ SameAs("branch_part", StrV("branches/" \o edits[1][2].s))
        /\ (edits[1][1] = "tag" /\ edits[1][2].t = "str"
                /\ IsDottedName(edits[1][2].s))
           => /\ IsOk(ret)
              /\ SameAs("tag", StrV("tags/" \o edits[1][2].s))
              /\ SameAs("branch_part", StrV("tags/" \o edits[1][2].s))
        /\ (edits[1][1] \in {"trunk", "branches", "tags"}
                /\ edits[1][2] = BoolV(TRUE))
           => /\ IsOk(ret)
              /\ SameAs(edits[1][1], IntV(1))
              /\ SameAs(edits[1][1], StrV(edits[1][1]))
              /\ SameAs("branch_part", StrV(edits[1][1]))

C4_Witness ==
    /\ pc = "change"
    /\ url = "^/p/trunk/x"
    /\ edits = <<<<"branch", StrV("a.b")>>>>
    /\ ret = Ok(StrV("^/p/branches/a.b/x"))
    /\ SameAs("branch_part", StrV("branches/a.b"))

\* C5 (idempotence of the checkers): a checker accepts the value it
\* returned and returns it unchanged.  In a state with prov = "checked",
\* arg is the value c(v) that checker c returned and ret is c(c(v)).
C5_Idempotent ==
    (pc = "checker" /\ prov = "checked") => ret = Ok(arg)

\* C6 (reserved keywords are never a project): dotted_name, the checker of
\* project, returns none of trunk, branches, tags, and neither is the
\* project of a tuple that split_svn_url returned.
C6_NoReservedProject ==
    /\ (pc = "checker" /\ key = "project" /\ IsOk(ret))
       => ~InList(reserved_names, ret.v.s)
    /\ (pc = "split" /\ IsOk(tup))
       => ~InList(reserved_names, tup.v[3].s)

\* a peg revision as the tuple holds it: None or an integer >= 1
PegOk(v) == v = None \/ (v.t = "int" /\ v.n >= 1)

\* the values int() parses, and the integer it returns for them
Parses(v) == v.t \in {"int", "bool"} \/ (v.t = "str" /\ IsIntLiteral(v.s))
Parsed(v) == IF v.t = "str" THEN IntOf(v.s) ELSE v.n

\* C7 (peg invariant): peg_value returns None for None and for '', the
\* integer n for a value that parses to n >= 1, and raises ValueError for a
\* value that does not parse and for one that parses to n <= 0; the peg of a
\* tuple that split_svn_url returned, and of the list that change_svn_url
\* hands to unsplit_svn_url after a peg edit, is None or an integer >= 1.
C7_PegInvariant ==
    /\ (pc = "checker" /\ key = "peg")
       => /\ (arg \in {None, StrV("")}) => ret = Ok(None)
          /\ (Parses(arg) /\ Parsed(arg) >= 1) => ret = Ok(IntV(Parsed(arg)))
          /\ (Parses(arg) /\ Parsed(arg) <= 0) => ret.kind = "ValueError"
          /\ (arg.t = "str" /\ arg.s # "" /\ ~Parses(arg))
             => ret.kind = "ValueError"
    /\ (pc = "split" /\ IsOk(tup)) => PegOk(tup.v[6])
    /\ (pc = "change" /\ liz # <<>> /\ \E a \in 1..Len(edits) : edits[a][1] = "peg")
       => PegOk(liz[6])

\* a url with a peg revision, split
C7_Witness ==
    /\ pc = "split"
    /\ url = "^/p/trunk@7"
    /\ IsOk(tup) /\ tup.v[6] = IntV(7)

\* the branch of a tuple: nothing, a bare keyword, or branches/ or tags/
\* and a dotted name
BranchShape(b) ==
    \/ b = None
    \/ b.s \in {"", "trunk", "branches", "tags"}
    \/ startswith(b.s, "branches/") /\ NameShape(From(b.s, 9))
    \/ startswith(b.s, "tags/") /\ NameShape(From(b.s, 5))

\* C8 (branch shape): the branch of every tuple that split_svn_url returned
\* is empty or None, trunk, branches, tags, or branches/<name> or
\* tags/<name> for a non-empty name without a slash and without an empty
\* dot-component.
C8_BranchShape ==
    (pc = "split" /\ IsOk(tup)) => BranchShape(tup.v[4])

\* the url is in one of the forms that stand for the current repository
Sentinel == startswith(url, "^/") \/ (startswith(url, "/") /\ kwargs.assume_url)

\* the baseurl without its trailing slashes, and what follows it in the url
Stripped  == rstrip(kwargs.baseurl.s, "/")
Remainder == From(url, Len(Stripped))

FullUrl ==
    /\ ~startswith(url, "^/") /\ ~startswith(url, "/")
    /\ (urlsplit(url).scheme # "" \/ urlsplit(url).netloc # "")

\* C10 (query and fragment): split_svn_url raises ValueError for a full url
\* that carries a query string or a fragment, with or without a baseurl.
C10_QueryRejected ==
    (pc = "split" /\ prov = "input" /\ FullUrl
        /\ (urlsplit(url).query # "" \/ urlsplit(url).fragment # ""))
    => tup.kind = "ValueError"

\* the working path of the split in the state: what follows the repo, up
\* to the peg revision; its segments; and the place (from 1) of the first
\* segment that equals w
WorkingPath ==
    IF HasChar(SplitRepo(url, kwargs).v[2], "@")
    THEN split1(SplitRepo(url, kwargs).v[2], "@")[1]
    ELSE SplitRepo(url, kwargs).v[2]
Segs == split(WorkingPath, "/")
FirstAt(w) == CHOOSE a \in 1..Len(Segs) :
                  Segs[a] = w /\ \A b \in 1..(a - 1) : Segs[b] # w

\* the keyword at place a and the segment after it, if there is one
KeywordAndName(a) ==
    IF a < Len(Segs) THEN Segs[a] \o "/" \o Segs[a + 1] ELSE Segs[a]

\* C11 (keyword priority): in a tuple that split_svn_url returned, the
\* branch is trunk when a segment of the working path is trunk, wherever
\* branches and tags stand; otherwise, when a segment is branches, it is the
\* first such segment and the one after it; otherwise, when a segment is
\* tags, the first such segment and the one after it; and it is None when
\* there is no keyword.  One keyword starts the branch, never two.
C11_KeywordPriority ==
    (pc = "split" /\ IsOk(tup)) =>
        IF InList(Segs, "trunk") THEN tup.v[4] = StrV("trunk")
        ELSE IF InList(Segs, "branches")
        THEN tup.v[4] = StrV(KeywordAndName(FirstAt("branches")))
        ELSE IF InList(Segs, "tags")
        THEN tup.v[4] = StrV(KeywordAndName(FirstAt("tags")))
        ELSE tup.v[4] = None

\* trunk after tags: trunk is the branch, tags the project
C11_Witness ==
    /\ pc = "split"
    /\ url = "^/tags/trunk"
    /\ IsOk(tup) /\ tup.v[4] = StrV("trunk") /\ tup.v[3] = StrV("tags")

\* the place (from 1) of the keyword that starts the branch, for a working
\* path that holds one, and the place of the last segment of the branch
KeywordPlace ==
    IF InList(Segs, "trunk") THEN FirstAt("trunk")
    ELSE IF InList(Segs, "branches") THEN FirstAt("branches")
    ELSE FirstAt("tags")
SpanEnd ==
    IF InList(Segs, "trunk") \/ KeywordPlace = Len(Segs) THEN KeywordPlace
    ELSE KeywordPlace + 1

\* the prefix made of the segments before place a, between its two slashes
PrefixOf(a) ==
    IF join("/", SubSeq(Segs, 1, a - 1)) = "" THEN "/"
    ELSE "/" \o strip(join("/", SubSeq(Segs, 1, a - 1)), "/") \o "/"

\* C12 (field placement): when the working path holds a keyword, the
\* project of the tuple that split_svn_url returned is the segment just
\* before the keyword, empty when the keyword is the first segment; the
\* prefix is made of the segments before that one and the suffix of the
\* segments after the branch; no segment at or after the keyword is in the
\* project or the prefix.
C12_FieldPlacement ==
    (/\ pc = "split" /\ IsOk(tup)
     /\ (InList(Segs, "trunk") \/ InList(Segs, "branches") \/ InList(Segs, "tags")))
    => /\ tup.v[3] = StrV(IF KeywordPlace > 1 THEN Segs[KeywordPlace - 1] ELSE "")
       /\ tup.v[2] = StrV(PrefixOf(KeywordPlace - 1))
       /\ tup.v[5] = StrV(join("/", SubSeq(Segs, SpanEnd + 1, Len(Segs))))

\* C13 (chained change): a string r that change_svn_url returned for a url
\* and a set of edits is accepted by split_svn_url, and change_svn_url with
\* r and the same edits returns r.  In a state with prov = "changed", url is
\* such an r, tup is split_svn_url(r) and ret is what the second call
\* returned or raised.
C13_ChainedChange ==
    (pc = "change" /\ prov = "changed") => (IsOk(tup) /\ ret = Ok(StrV(url)))

===========================================================================
